---- MODULE Spec2Model ----
(***************************************************************************)
(* Outreach Delivery Scheduler: the job queue and send scheduler of        *)
(* src/src/lib/send-queue.ts, the signal watcher and follow-up due-check   *)
(* of src/src/lib/job-processor.ts and the outreach routes that feed them. *)
(* A handler is a process whose position is kept in a pc field; it can be  *)
(* overtaken where it waits between its read of the store and its write,   *)
(* and inside the transport call.                                          *)
(***************************************************************************)
EXTENDS Integers, FiniteSets, Sequences, TLC

\* ---------------------------------------------------------------- bounds
NumWorkers == 2
MaxJobs == 3
MaxOutreach == 5
MaxDay == 1
\* transport and store calls that throw, over a whole behaviour
MaxFaults == 1
\* skip, delete and pause requests of the operator, over a whole behaviour
MaxOps == 1
MaxFirings == 2
\* transport calls that throw, over a behaviour of the retry ceiling
MaxSendFailures == 4
\* dailySendLimit of the READY domain, scaled down from the 20 of the code
DomainDailyLimit == 1
\* Math.random() draws of (hour offset, minute) for a follow-up's scheduledAt
RandomSlots == {<<0, 0>>, <<1, 59>>}

\* ------------------------------------------------------ program constants
SEND_WINDOW_START == 8
SEND_WINDOW_END == 18
DAILY_EMAIL_LIMIT_PER_DOMAIN == 20
WARMUP_DAYS == 28
WARMUP_READY_LIMIT == 20
MAX_ATTEMPTS == 3
MAX_RETRIES == 3
BACKOFF_BASE_S == 30
BACKOFF_FACTOR == 4
WARMUP_START_LIMIT == 2
DEFAULT_FOLLOWUP1_DAYS == 5
DEFAULT_FOLLOWUP2_DAYS == 14
HOUR_S == 3600
DAY_S == 86400
MINUTE_S == 60

NULL == -1

Workers == 1..NumWorkers
JobIds == 1..MaxJobs
OutreachIds == 1..MaxOutreach
ContactIds == {1, 2}
DomainIds == {1, 2}

OutreachStatus ==
  {"SCHEDULED", "DRAFT_CREATED", "APPROVED", "SENDING", "SENT", "FAILED", "CANCELLED"}
ContactStatus ==
  {"NEW", "RESEARCHED", "OUTREACH_STARTED", "REPLIED", "MEETING_SCHEDULED",
   "CONVERTED", "NOT_INTERESTED", "BOUNCED"}

VARIABLES
  clock,      \* wall clock, seconds of local time since day 0 00:00
  jobs,       \* JobQueue rows
  outreach,   \* Outreach rows
  contact,    \* Contact rows
  domains,    \* SendingDomain rows
  campaign,   \* the campaign's cadenceConfig
  worker,     \* one record per concurrent processEmailQueue caller
  followUp,   \* position of jobProcessFollowUps
  operator,   \* position of the outreach DELETE route
  delivered,  \* per outreach: messages accepted by a transport
  watcher,    \* position of jobCheckReplies
  mail,       \* per contact: what the mail provider holds
  warmup,     \* position of runWarmupCycle, firings of the warmup trigger
  activeTasks,\* the cron tasks of startJobProcessor: scheduled or stopped
  graph,      \* position of one graphApiCall around sendEmail's callback
  faults,     \* transport and store calls that have thrown so far
  ops         \* skip, delete and pause requests made so far

vars == <<clock, jobs, outreach, contact, domains, campaign, worker, followUp,
          operator, watcher, mail, warmup, activeTasks, graph, delivered, faults, ops>>

\* ------------------------------------------------------------ date helpers
\* Date.getHours()
Hour(t) == (t % DAY_S) \div HOUR_S

\* Date.setHours(0, 0, 0, 0)
StartOfDay(t) == t - (t % DAY_S)

\* Date.setHours(h, m, 0, 0)
SetHours(t, h, m) == StartOfDay(t) + h * HOUR_S + m * MINUTE_S

\* Date.setDate(getDate() + n)
AddDays(t, n) == t + n * DAY_S

RECURSIVE Pow(_, _)
Pow(b, e) == IF e = 0 THEN 1 ELSE b * Pow(b, e - 1)

\* ------------------------------------------------------------- row shapes
NoJob ==
  [status |-> "NONE", outreachId |-> NULL, priority |-> 0, attempts |-> 0,
   maxAttempts |-> MAX_ATTEMPTS, runAfter |-> 0, createdAt |-> 0,
   lastError |-> "null"]

NoOutreach ==
  [exists |-> FALSE, deleted |-> FALSE, contactId |-> NULL, type |-> "INITIAL", status |-> "CANCELLED",
   sendingDomainId |-> NULL, sentAt |-> NULL, scheduledAt |-> NULL,
   parentOutreachId |-> NULL, replySentiment |-> "null"]

IdleWorker ==
  [pc |-> "idle", job |-> NULL, now |-> NULL, attempts |-> 0, outreachId |-> NULL,
   contactId |-> NULL, contactStatus |-> "NEW", type |-> "INITIAL", snapDomainId |-> NULL,
   sendingDomainId |-> NULL]

IdleFollowUp == [pc |-> "idle", outreachId |-> NULL, contactStatus |-> "NEW"]
IdleOperator == [pc |-> "idle", outreachId |-> NULL]

\* a contact's conversation holds no message of theirs, the inbox no NDR
NoMail == [thread |-> "none", ndr |-> FALSE]
NoSnapshot == [status |-> "NEW", repliedAt |-> NULL, latest |-> NULL]
IdleWatcher ==
  [pc |-> "idle", queue |-> <<>>, batch |-> {},
   snap |-> [c \in ContactIds |-> NoSnapshot]]

\* runWarmupCycle is not running; the warmup trigger has not fired
NoDomainSnapshot == [warmupDayNumber |-> 0, workspaceId |-> 1, smtp |-> FALSE]
IdleWarmup ==
  [pc |-> "idle", queue |-> <<>>, firings |-> 0,
   snap |-> [d \in DomainIds |-> NoDomainSnapshot]]

\* no graphApiCall is under way
IdleGraph == [pc |-> "idle", attempt |-> 0, refreshes |-> 0, sent |-> 0, log |-> <<>>]

\* ------------------------------------------------------------------- Init
\* The store at midnight before day 1. Contact 2 got its INITIAL email on day
\* 0 through domain 1 (job 1, COMPLETED); its FOLLOWUP_1 is overdue and still
\* SCHEDULED, its FOLLOWUP_2 was deleted. The INITIAL email of contact 1 was
\* approved on day 0 (job 2), found no sending domain, failed twice and was
\* put off to the window start of day 1. Domain 1 is READY, domain 2 is
\* warming up.
Init ==
  /\ clock = DAY_S
  /\ jobs =
       [j \in JobIds |->
          IF j = 1 THEN [NoJob EXCEPT !.status = "COMPLETED", !.outreachId = 2,
                           !.runAfter = SEND_WINDOW_START * HOUR_S,
                           !.createdAt = SEND_WINDOW_START * HOUR_S]
          ELSE IF j = 2 THEN [NoJob EXCEPT !.status = "PENDING", !.outreachId = 1,
                           !.attempts = MAX_ATTEMPTS - 1,
                           !.lastError = "error",
                           !.runAfter = DAY_S + SEND_WINDOW_START * HOUR_S,
                           !.createdAt = SEND_WINDOW_START * HOUR_S]
          ELSE NoJob]
  /\ outreach =
       [o \in OutreachIds |->
          IF o = 1 THEN [NoOutreach EXCEPT !.exists = TRUE, !.contactId = 1,
                           !.type = "INITIAL", !.status = "APPROVED"]
          ELSE IF o = 2 THEN [NoOutreach EXCEPT !.exists = TRUE, !.contactId = 2,
                           !.type = "INITIAL", !.status = "SENT",
                           !.sendingDomainId = 1,
                           !.sentAt = SEND_WINDOW_START * HOUR_S]
          ELSE IF o = 3 THEN [NoOutreach EXCEPT !.exists = TRUE, !.contactId = 2,
                           !.type = "FOLLOWUP_1", !.status = "SCHEDULED",
                           !.sendingDomainId = 1,
                           !.scheduledAt = SEND_WINDOW_START * HOUR_S,
                           !.parentOutreachId = 2]
          ELSE NoOutreach]
  /\ contact =
       [c \in ContactIds |->
          [status |-> IF c = 1 THEN "NEW" ELSE "OUTREACH_STARTED",
           outlookConversationId |-> FALSE,
           lastContactedAt |-> IF c = 1 THEN NULL ELSE SEND_WINDOW_START * HOUR_S,
           repliedAt |-> NULL]]
  /\ domains =
       [d \in DomainIds |->
          IF d = 1
            THEN [warmupStatus |-> "READY", dailySendLimit |-> DomainDailyLimit,
                  healthScore |-> 100, smtp |-> TRUE,
                  warmupDayNumber |-> WARMUP_DAYS + 1, workspaceId |-> 1]
            ELSE [warmupStatus |-> "WARMING", dailySendLimit |-> WARMUP_START_LIMIT,
                  healthScore |-> 90, smtp |-> FALSE,
                  warmupDayNumber |-> 0, workspaceId |-> 1]]
  /\ campaign = [followUp1Days |-> 1, followUp2Days |-> NULL]
  /\ worker = [w \in Workers |-> IdleWorker]
  /\ followUp = IdleFollowUp
  /\ operator = IdleOperator
  /\ watcher = IdleWatcher
  /\ warmup = IdleWarmup
  /\ activeTasks = "scheduled"
  /\ graph = IdleGraph
  /\ mail = [c \in ContactIds |-> NoMail]
  /\ delivered = [o \in OutreachIds |-> IF o = 2 THEN 1 ELSE 0]
  /\ faults = 0
  /\ ops = 0

\* ---------------------------------------------------------------- queries
\* getDailyDomainSendCount: SENT outreach of the domain with sentAt in today
getDailyDomainSendCount(domainId) ==
  Cardinality({o \in OutreachIds :
                 /\ outreach[o].exists
                 /\ outreach[o].sendingDomainId = domainId
                 /\ outreach[o].status = "SENT"
                 /\ outreach[o].sentAt >= StartOfDay(clock)
                 /\ outreach[o].sentAt <= StartOfDay(clock) + DAY_S - 1})

\* pickSendingDomain: READY domains by healthScore descending, the first one
\* whose count of today is below its dailySendLimit, or null
pickSendingDomain ==
  LET avail == {d \in DomainIds :
                  /\ domains[d].warmupStatus = "READY"
                  /\ getDailyDomainSendCount(d) < domains[d].dailySendLimit}
  IN IF avail = {} THEN NULL
     ELSE CHOOSE d \in avail :
            \A e \in avail : domains[e].healthScore <= domains[d].healthScore

\* sendingDomain?.dailySendLimit ?? DAILY_EMAIL_LIMIT_PER_DOMAIN
DailyLimit(domainId) ==
  IF domainId \in DomainIds THEN domains[domainId].dailySendLimit
  ELSE DAILY_EMAIL_LIMIT_PER_DOMAIN

\* findFirst: PENDING send jobs with runAfter <= now, priority desc, createdAt asc
NextJobs(now) ==
  LET due == {j \in JobIds : jobs[j].status = "PENDING" /\ jobs[j].runAfter <= now}
  IN {j \in due :
        \A k \in due :
          \/ jobs[k].priority < jobs[j].priority
          \/ /\ jobs[k].priority = jobs[j].priority
             /\ jobs[k].createdAt >= jobs[j].createdAt}

FreeOutreachIds == {o \in OutreachIds : ~outreach[o].exists /\ ~outreach[o].deleted}
FreeJobIds == {j \in JobIds : jobs[j].status = "NONE"}

Min(S) == CHOOSE x \in S : \A y \in S : x <= y

\* ----------------------------------------------------------- enqueueEmail
enqueueEmail(outreachId, priority) ==
  /\ FreeJobIds # {}
  /\ jobs' = [jobs EXCEPT ![Min(FreeJobIds)] =
                [NoJob EXCEPT !.status = "PENDING", !.outreachId = outreachId,
                              !.priority = priority, !.runAfter = clock,
                              !.createdAt = clock]]

\* ------------------------------------------------------ processEmailQueue
\* A caller stands at one of three places: idle, between findFirst and the
\* conditional update ("claim"), and inside the transport call ("send").
SchedulerFrame ==
  UNCHANGED <<clock, domains, campaign, watcher, mail, warmup, activeTasks, graph,
              followUp, operator, ops>>

\* const now = new Date(); findFirst(...)
FindJob(w) ==
  /\ worker[w].pc = "idle"
  /\ \A v \in Workers : worker[v].pc = "idle" => w <= v
  /\ \E j \in NextJobs(clock) :
       worker' = [worker EXCEPT ![w] =
                    [IdleWorker EXCEPT !.pc = "claim", !.job = j, !.now = clock,
                                       !.attempts = jobs[j].attempts,
                                       !.outreachId = jobs[j].outreachId]]
  /\ UNCHANGED <<jobs, outreach, contact, delivered, faults>>
  /\ SchedulerFrame

\* an unconditional update: every caller counts one row
ClaimCountUnconditional(j) == 1

\* updateMany where {id, status: PENDING}: claimed.count
ClaimCount(j) == IF jobs[j].status = "PENDING" THEN 1 ELSE 0

\* 30_000 * Math.pow(4, job.attempts), in seconds
BackoffS(attempts) == BACKOFF_BASE_S * Pow(BACKOFF_FACTOR, attempts)

\* a catch block that always retries
FailedJobRetries(job, attempts) ==
  [job EXCEPT !.status = "PENDING", !.attempts = attempts + 1,
              !.lastError = "error", !.runAfter = clock + 30]

\* catch: newAttempts = job.attempts + 1; DEAD when >= maxAttempts, else
\* PENDING again after the backoff
FailedJob(job, attempts) ==
  IF attempts + 1 >= job.maxAttempts
    THEN [job EXCEPT !.status = "DEAD", !.attempts = attempts + 1,
                     !.lastError = "error"]
    ELSE [job EXCEPT !.status = "PENDING", !.attempts = attempts + 1,
                     !.lastError = "error",
                     !.runAfter = clock + BackoffS(attempts)]

\* catch, DEAD branch: outreach.update {status: FAILED} (throws on a missing row)
FailedOutreach(out, o, job) ==
  IF job.status = "DEAD" /\ out[o].exists
    THEN [out EXCEPT ![o].status = "FAILED"]
    ELSE out

\* the catch block, entered with the outreach rows as written so far
HandleFailure(w, out) ==
  LET j == worker[w].job
      failed == FailedJob(jobs[j], worker[w].attempts)
  IN /\ jobs' = [jobs EXCEPT ![j] = failed]
     /\ outreach' = FailedOutreach(out, worker[w].outreachId, failed)
     /\ worker' = [worker EXCEPT ![w] = IdleWorker]

\* jobQueue.update {status: PENDING, runAfter, startedAt: null}
Reschedule(w, runAfter) ==
  /\ jobs' = [jobs EXCEPT ![worker[w].job].status = "PENDING",
                          ![worker[w].job].runAfter = runAfter]
  /\ worker' = [worker EXCEPT ![w] = IdleWorker]

\* 3. todaySent >= limit
AtCapacity(domainId) ==
  domainId # NULL /\ getDailyDomainSendCount(domainId) >= DailyLimit(domainId)

\* the window start of the current day
TodayAtStart == SetHours(clock, SEND_WINDOW_START, 0)

\* 3. tomorrow at window start
TomorrowAtStart == SetHours(AddDays(clock, 1), SEND_WINDOW_START, 0)

\* a window check that forgets the end of the window
OutsideWindowStartOnly(now) == Hour(now) < SEND_WINDOW_START

\* 4. currentHour < SEND_WINDOW_START || currentHour >= SEND_WINDOW_END
OutsideWindow(now) ==
  Hour(now) < SEND_WINDOW_START \/ Hour(now) >= SEND_WINDOW_END

\* 4. next window opening: tomorrow when past the end, else today
NextWindow(now) ==
  SetHours(IF Hour(now) >= SEND_WINDOW_END THEN AddDays(clock, 1) ELSE clock,
           SEND_WINDOW_START, 0)

\* a cycle that runs the routing policy whatever the outreach holds
RerolledDomain(o) == pickSendingDomain

\* 2. the domain the cycle goes on with: the persisted one, else the pick
ResolvedDomain(o) ==
  IF outreach[o].sendingDomainId # NULL THEN outreach[o].sendingDomainId
  ELSE pickSendingDomain

\* The conditional update and, when it wins, steps 1 to 4: load the outreach,
\* resolve and persist the sending domain, daily limit, send window.
ClaimJob(w) ==
  /\ worker[w].pc = "claim"
  /\ LET j == worker[w].job
         o == worker[w].outreachId
         d == ResolvedDomain(o)
     IN IF ClaimCount(j) = 0
          THEN /\ worker' = [worker EXCEPT ![w] = IdleWorker]
               /\ UNCHANGED <<jobs, outreach>>
          ELSE IF ~outreach[o].exists
            THEN HandleFailure(w, outreach)
            ELSE IF AtCapacity(d)
              THEN /\ Reschedule(w, TomorrowAtStart)
                   /\ outreach' = [outreach EXCEPT ![o].sendingDomainId = d]
              ELSE IF OutsideWindow(worker[w].now)
                THEN /\ Reschedule(w, NextWindow(worker[w].now))
                     /\ outreach' = [outreach EXCEPT ![o].sendingDomainId = d]
                ELSE /\ jobs' = [jobs EXCEPT ![j].status = "PROCESSING"]
                     /\ outreach' = [outreach EXCEPT ![o].sendingDomainId = d]
                     /\ worker' = [worker EXCEPT
                          ![w].pc = "send",
                          ![w].contactId = outreach[o].contactId,
                          ![w].contactStatus = contact[outreach[o].contactId].status,
                          ![w].type = outreach[o].type,
                          ![w].snapDomainId = outreach[o].sendingDomainId,
                          ![w].sendingDomainId = d]
  /\ UNCHANGED <<contact, delivered, faults>>
  /\ SchedulerFrame

\* 5. SMTP when the domain has credentials, else the user's Outlook mailbox
ViaSmtp(domainId) == domainId # NULL /\ domains[domainId].smtp

\* 6. outreach.update {status: SENT, sentAt: now}
SentOutreach(out, w) ==
  [out EXCEPT ![worker[w].outreachId].status = "SENT",
              ![worker[w].outreachId].sentAt = worker[w].now]

\* 6. nested contact update: lastContactedAt, and the conversation id that
\* only an Outlook send returns
ContactedContact(con, w) ==
  [con EXCEPT ![worker[w].contactId].lastContactedAt = worker[w].now,
              ![worker[w].contactId].outlookConversationId =
                 (@ \/ ~ViaSmtp(worker[w].sendingDomainId))]

\* 7. OUTREACH_STARTED when the contact loaded in step 1 was NEW or RESEARCHED
StartedContact(con, w) ==
  IF worker[w].contactStatus \in {"NEW", "RESEARCHED"}
    THEN [con EXCEPT ![worker[w].contactId].status = "OUTREACH_STARTED"]
    ELSE con

\* cadence.followUpNDays ?? default
FollowUp1Days == IF campaign.followUp1Days = NULL THEN DEFAULT_FOLLOWUP1_DAYS
                 ELSE campaign.followUp1Days
FollowUp2Days == IF campaign.followUp2Days = NULL THEN DEFAULT_FOLLOWUP2_DAYS
                 ELSE campaign.followUp2Days

\* new Date(now); setDate(+days); setHours(START + random hour, random minute)
FollowUpDate(now, days, slot) ==
  SetHours(AddDays(now, days), SEND_WINDOW_START + slot[1], slot[2])

FollowUpRow(w, type, scheduledAt) ==
  [NoOutreach EXCEPT !.exists = TRUE, !.contactId = worker[w].contactId,
                     !.sendingDomainId = worker[w].snapDomainId, !.type = type,
                     !.status = "SCHEDULED", !.scheduledAt = scheduledAt,
                     !.parentOutreachId = worker[w].outreachId]

\* 8. createMany of FOLLOWUP_1 and FOLLOWUP_2 after an INITIAL send
CreatesFollowUps(w) == worker[w].type = "INITIAL"

WithFollowUps(out, w, s1, s2) ==
  IF ~CreatesFollowUps(w) THEN out
  ELSE LET f1 == Min(FreeOutreachIds)
           f2 == Min(FreeOutreachIds \ {f1})
       IN [out EXCEPT
             ![f1] = FollowUpRow(w, "FOLLOWUP_1",
                       FollowUpDate(worker[w].now, FollowUp1Days, s1)),
             ![f2] = FollowUpRow(w, "FOLLOWUP_2",
                       FollowUpDate(worker[w].now, FollowUp2Days, s2))]

\* 9. jobQueue.update {status: COMPLETED}
CompletedJobs(w) == [jobs EXCEPT ![worker[w].job].status = "COMPLETED"]

\* 5. the transport call throws: nothing was handed over
SendThrows(w) ==
  /\ faults < MaxFaults
  /\ faults' = faults + 1
  /\ HandleFailure(w, outreach)
  /\ UNCHANGED <<contact, delivered>>

\* 5. to 9. the transport accepts the message and every store call succeeds
SendSucceeds(w) ==
  /\ outreach[worker[w].outreachId].exists
  /\ CreatesFollowUps(w) => Cardinality(FreeOutreachIds) >= 2
  /\ \E s1 \in RandomSlots, s2 \in RandomSlots :
       outreach' = WithFollowUps(SentOutreach(outreach, w), w, s1, s2)
  /\ contact' = StartedContact(ContactedContact(contact, w), w)
  /\ jobs' = CompletedJobs(w)
  /\ delivered' = [delivered EXCEPT ![worker[w].outreachId] = @ + 1]
  /\ worker' = [worker EXCEPT ![w] = IdleWorker]
  /\ UNCHANGED faults

\* 5. to 9. the transport accepts the message and a later store call throws:
\* the update to SENT (also when the row is gone), the contact update, the
\* createMany or the job completion; what was written before it stays
SendThenStoreThrows(w) ==
  /\ delivered' = [delivered EXCEPT ![worker[w].outreachId] = @ + 1]
  /\ \/ /\ ~outreach[worker[w].outreachId].exists
        /\ HandleFailure(w, outreach)
        /\ UNCHANGED <<contact, faults>>
     \/ /\ faults < MaxFaults
        /\ faults' = faults + 1
        /\ \/ /\ HandleFailure(w, outreach)
              /\ UNCHANGED contact
           \/ /\ outreach[worker[w].outreachId].exists
              /\ \/ /\ worker[w].contactStatus \in {"NEW", "RESEARCHED"}
                    /\ HandleFailure(w, SentOutreach(outreach, w))
                    /\ contact' = ContactedContact(contact, w)
                 \/ /\ CreatesFollowUps(w)
                    /\ HandleFailure(w, SentOutreach(outreach, w))
                    /\ contact' = StartedContact(ContactedContact(contact, w), w)
                 \/ /\ CreatesFollowUps(w) => Cardinality(FreeOutreachIds) >= 2
                    /\ \E s1 \in RandomSlots, s2 \in RandomSlots :
                         HandleFailure(w,
                           WithFollowUps(SentOutreach(outreach, w), w, s1, s2))
                    /\ contact' = StartedContact(ContactedContact(contact, w), w)

Dispatch(w) ==
  /\ worker[w].pc = "send"
  /\ \/ SendThrows(w)
     \/ SendSucceeds(w)
     \/ SendThenStoreThrows(w)
  /\ SchedulerFrame

processEmailQueue(w) ==
  \/ FindJob(w)
  \/ ClaimJob(w)
  \/ Dispatch(w)

\* ---------------------------------------------------------- signal watcher
HasSent(c) ==
  \E o \in OutreachIds :
    outreach[o].exists /\ outreach[o].contactId = c /\ outreach[o].status = "SENT"

\* markContactBounced, first write: contact BOUNCED
BouncedContact(con, c) == [con EXCEPT ![c].status = "BOUNCED"]

\* markContactBounced, second write: the contact's SCHEDULED, DRAFT_CREATED
\* and APPROVED outreach CANCELLED
BounceCancelled(out, c) ==
  [o \in OutreachIds |->
     IF /\ out[o].exists
        /\ out[o].contactId = c
        /\ out[o].status \in {"SCHEDULED", "DRAFT_CREATED", "APPROVED"}
       THEN [out[o] EXCEPT !.status = "CANCELLED"]
       ELSE out[o]]

\* markContactBounced: contact BOUNCED, then its SCHEDULED, DRAFT_CREATED and
\* APPROVED outreach CANCELLED
markContactBounced(c) ==
  /\ contact' = BouncedContact(contact, c)
  /\ outreach' = BounceCancelled(outreach, c)
  /\ UNCHANGED <<clock, jobs, domains, campaign, watcher, mail, warmup, activeTasks, graph, worker, followUp,
                 operator, delivered, faults, ops>>

\* jobCheckReplies, conversation pass: the latest message is a bounce
BounceInThread(c) ==
  /\ contact[c].status = "OUTREACH_STARTED"
  /\ contact[c].outlookConversationId
  /\ HasSent(c)
  /\ markContactBounced(c)

\* jobCheckReplies, inbox scan: an NDR names a contact that is not BOUNCED
BounceInInbox(c) ==
  /\ \E o \in OutreachIds : outreach[o].exists /\ outreach[o].status = "SENT"
  /\ contact[c].status # "BOUNCED"
  /\ markContactBounced(c)

\* ------------------------------------------------------ follow-up due-check
FollowUpTypes == {"FOLLOWUP_1", "FOLLOWUP_2", "MEETING_REQUEST"}

\* jobProcessFollowUps: a due SCHEDULED outreach is read with its contact
ReadDueFollowUp(o) ==
  /\ followUp.pc = "idle"
  /\ outreach[o].exists
  /\ outreach[o].status = "SCHEDULED"
  /\ outreach[o].scheduledAt <= clock
  /\ outreach[o].type \in FollowUpTypes
  /\ followUp' = [pc |-> "write", outreachId |-> o,
                  contactStatus |-> contact[outreach[o].contactId].status]
  /\ UNCHANGED <<clock, jobs, outreach, contact, domains, campaign, watcher, mail, warmup, activeTasks, graph, worker,
                 operator, delivered, faults, ops>>

\* the status the due-check writes: CANCELLED for a contact that replied,
\* else DRAFT_CREATED with the generated email
FollowUpStatus(contactStatus) ==
  IF contactStatus \in {"REPLIED", "NOT_INTERESTED", "MEETING_SCHEDULED", "CONVERTED"}
    THEN "CANCELLED" ELSE "DRAFT_CREATED"

\* jobProcessFollowUps: outreach.update by id; a throw (generation, missing
\* row) is logged and the outreach skipped
WriteFollowUp ==
  /\ followUp.pc = "write"
  /\ \/ /\ outreach[followUp.outreachId].exists
        /\ outreach' = [outreach EXCEPT ![followUp.outreachId].status =
                          FollowUpStatus(followUp.contactStatus)]
     \/ UNCHANGED outreach
  /\ followUp' = IdleFollowUp
  /\ UNCHANGED <<clock, jobs, contact, domains, campaign, watcher, mail, warmup, activeTasks, graph, worker, operator,
                 delivered, faults, ops>>

\* ---------------------------------------------------------- outreach routes
\* PATCH approve: only a draft; status APPROVED, then enqueueEmail(id)
Approve(o) ==
  /\ outreach[o].exists
  /\ outreach[o].status = "DRAFT_CREATED"
  /\ outreach' = [outreach EXCEPT ![o].status = "APPROVED"]
  /\ enqueueEmail(o, 0)
  /\ UNCHANGED <<clock, contact, domains, campaign, watcher, mail, warmup, activeTasks, graph, worker, followUp, operator,
                 delivered, faults, ops>>

\* PATCH skip: status CANCELLED, whatever the status was
Skip(o) ==
  /\ ops < MaxOps
  /\ ops' = ops + 1
  /\ outreach[o].exists
  /\ outreach[o].status # "CANCELLED"
  /\ outreach' = [outreach EXCEPT ![o].status = "CANCELLED"]
  /\ UNCHANGED <<clock, jobs, contact, domains, campaign, watcher, mail, warmup, activeTasks, graph, worker, followUp,
                 operator, delivered, faults>>

\* DELETE: the row is read and must be a draft or scheduled
DeleteRead(o) ==
  /\ ops < MaxOps
  /\ ops' = ops + 1
  /\ operator.pc = "idle"
  /\ outreach[o].exists
  /\ outreach[o].status \in {"DRAFT_CREATED", "SCHEDULED"}
  /\ operator' = [pc |-> "delete", outreachId |-> o]
  /\ UNCHANGED <<clock, jobs, outreach, contact, domains, campaign, watcher, mail, warmup, activeTasks, graph, worker,
                 followUp, delivered, faults>>

\* DELETE: outreach.delete
DeleteWrite ==
  /\ operator.pc = "delete"
  /\ outreach' = [outreach EXCEPT ![operator.outreachId] =
                    [NoOutreach EXCEPT !.deleted = TRUE]]
  /\ operator' = IdleOperator
  /\ UNCHANGED <<clock, jobs, contact, domains, campaign, watcher, mail, warmup, activeTasks, graph, worker, followUp,
                 delivered, faults, ops>>

\* PATCH domains, action pause_warmup: pauseWarmup sets PAUSED, whatever the
\* status was
pauseWarmup(d) ==
  /\ ops < MaxOps
  /\ ops' = ops + 1
  /\ domains[d].warmupStatus \notin {"PAUSED", "NONE"}
  /\ domains' = [domains EXCEPT ![d].warmupStatus = "PAUSED"]
  /\ UNCHANGED <<clock, jobs, outreach, contact, campaign, watcher, mail, warmup, activeTasks, graph, worker, followUp,
                 operator, delivered, faults>>

\* ------------------------------------------------------------------- time
MaxClock == MaxDay * DAY_S + SEND_WINDOW_END * HOUR_S

\* the instants at which a guard of the model can change its value
EventTimes ==
  {d * DAY_S + h * HOUR_S : d \in 0..MaxDay, h \in {0, SEND_WINDOW_START, SEND_WINDOW_END}}
    \cup {jobs[j].runAfter : j \in {k \in JobIds : jobs[k].status = "PENDING"}}
    \cup {outreach[o].scheduledAt :
            o \in {p \in OutreachIds : outreach[p].exists /\ outreach[p].status = "SCHEDULED"}}

Tick ==
  /\ \E t \in EventTimes :
       /\ t > clock
       /\ t <= MaxClock
       /\ clock' = t
  /\ UNCHANGED <<jobs, outreach, contact, domains, campaign, watcher, mail, warmup, activeTasks, graph, worker, followUp,
                 operator, delivered, faults, ops>>

\* ------------------------------------------------------------------- Spec
Next ==
  \/ \E w \in Workers : processEmailQueue(w)
  \/ \E c \in ContactIds : BounceInThread(c)
  \/ \E c \in ContactIds : BounceInInbox(c)
  \/ \E o \in OutreachIds : ReadDueFollowUp(o)
  \/ WriteFollowUp
  \/ \E o \in OutreachIds : Approve(o)
  \/ \E o \in OutreachIds : Skip(o)
  \/ \E o \in OutreachIds : DeleteRead(o)
  \/ DeleteWrite
  \/ \E d \in DomainIds : pauseWarmup(d)
  \/ Tick

Spec == Init /\ [][Next]_vars

\* A fresh store at the window start of day 0: the INITIAL email of contact 1
\* has just been approved (job 1, no attempt yet); the campaign's cadence is
\* the default one or one day. Only the send scheduler runs.
InitRetry ==
  /\ clock = SEND_WINDOW_START * HOUR_S
  /\ jobs =
       [j \in JobIds |->
          IF j = 1 THEN [NoJob EXCEPT !.status = "PENDING", !.outreachId = 1,
                           !.runAfter = SEND_WINDOW_START * HOUR_S,
                           !.createdAt = SEND_WINDOW_START * HOUR_S]
          ELSE NoJob]
  /\ outreach =
       [o \in OutreachIds |->
          IF o = 1 THEN [NoOutreach EXCEPT !.exists = TRUE, !.contactId = 1,
                           !.type = "INITIAL", !.status = "APPROVED"]
          ELSE NoOutreach]
  /\ contact =
       [c \in ContactIds |->
          [status |-> "NEW", outlookConversationId |-> FALSE,
           lastContactedAt |-> NULL, repliedAt |-> NULL]]
  /\ domains =
       [d \in DomainIds |->
          IF d = 1
            THEN [warmupStatus |-> "READY", dailySendLimit |-> DomainDailyLimit,
                  healthScore |-> 100, smtp |-> TRUE,
                  warmupDayNumber |-> WARMUP_DAYS + 1, workspaceId |-> 1]
            ELSE [warmupStatus |-> "WARMING", dailySendLimit |-> WARMUP_START_LIMIT,
                  healthScore |-> 90, smtp |-> FALSE,
                  warmupDayNumber |-> 0, workspaceId |-> 1]]
  /\ \E d1 \in {NULL, 1} :
       campaign = [followUp1Days |-> d1, followUp2Days |-> NULL]
  /\ worker = [w \in Workers |-> IdleWorker]
  /\ followUp = IdleFollowUp
  /\ operator = IdleOperator
  /\ watcher = IdleWatcher
  /\ warmup = IdleWarmup
  /\ activeTasks = "scheduled"
  /\ graph = IdleGraph
  /\ mail = [c \in ContactIds |-> NoMail]
  /\ delivered = [o \in OutreachIds |-> 0]
  /\ faults = 0
  /\ ops = 0

\* POST outreach/generate with contactIds: one DRAFT_CREATED row of the asked
\* type per contact, whatever rows the contact has
Generate(c, type) ==
  /\ ops < MaxOps
  /\ ops' = ops + 1
  /\ FreeOutreachIds # {}
  /\ outreach' = [outreach EXCEPT ![Min(FreeOutreachIds)] =
                    [NoOutreach EXCEPT !.exists = TRUE, !.contactId = c,
                                       !.type = type, !.status = "DRAFT_CREATED"]]
  /\ UNCHANGED <<clock, jobs, contact, domains, campaign, watcher, mail, warmup, activeTasks, graph, worker, followUp,
                 operator, delivered, faults>>

NextRetry ==
  \/ \E w \in Workers : processEmailQueue(w)
  \/ \E c \in ContactIds, type \in {"INITIAL", "FOLLOWUP_1", "FOLLOWUP_2"} :
       Generate(c, type)
  \/ Tick

SpecRetry == InitRetry /\ [][NextRetry]_vars

\* ------------------------------------------------------- jobCheckReplies
Sentiments ==
  {"interested", "maybe_later", "not_interested", "out_of_office", "wrong_person"}

\* the orders in which a findMany without orderBy can return the rows of S
Perms(S) ==
  {q \in [1..Cardinality(S) -> S] : \A i, k \in 1..Cardinality(S) : q[i] = q[k] => i = k}

\* include outreaches where SENT, orderBy sentAt desc, take 1
LatestSent(c) ==
  LET sent == {o \in OutreachIds :
                 /\ outreach[o].exists
                 /\ outreach[o].contactId = c
                 /\ outreach[o].status = "SENT"}
  IN IF sent = {} THEN NULL
     ELSE CHOOSE o \in sent : \A p \in sent : outreach[p].sentAt <= outreach[o].sentAt

\* a switch that takes its default branch for every sentiment
NewStatusDefault(sentiment, status) == "REPLIED"

\* the switch on classification.sentiment
NewStatus(sentiment, status) ==
  CASE sentiment \in {"interested", "maybe_later"} -> "REPLIED"
    [] sentiment \in {"not_interested", "wrong_person"} -> "NOT_INTERESTED"
    [] OTHER -> status

\* outreach.update of the latest SENT outreach: replyContent, replySentiment,
\* suggestedReply
WithReply(out, o, sentiment) == [out EXCEPT ![o].replySentiment = sentiment]

\* contact.update {status: newStatus, repliedAt: latestReply.receivedAt}
RepliedContact(con, c, sentiment, status) ==
  [con EXCEPT ![c].status = NewStatus(sentiment, status), ![c].repliedAt = clock]

\* updateMany {contactId, status: SCHEDULED} -> CANCELLED, unless out_of_office
ReplyCancelled(out, c, sentiment) ==
  IF sentiment = "out_of_office" THEN out
  ELSE [o \in OutreachIds |->
          IF out[o].exists /\ out[o].contactId = c /\ out[o].status = "SCHEDULED"
            THEN [out[o] EXCEPT !.status = "CANCELLED"]
            ELSE out[o]]

\* a guard that never skips
NeverReplied(sn) == FALSE

\* if (contact.repliedAt) continue
AlreadyReplied(sn) == sn.repliedAt # NULL

WatcherFrame ==
  UNCHANGED <<clock, jobs, domains, campaign, worker, followUp, operator, mail, warmup,
              activeTasks, graph,
              delivered, ops>>

\* conversation pass: contact.findMany of the OUTREACH_STARTED contacts with a
\* conversation id, each with its latest SENT outreach
checkRepliesStart ==
  /\ watcher.pc = "idle"
  /\ LET found == {c \in ContactIds :
                     /\ contact[c].status = "OUTREACH_STARTED"
                     /\ contact[c].outlookConversationId}
     IN \E q \in Perms(found) :
          watcher' =
            [pc |-> IF found = {} THEN "sweep" ELSE "conv",
             queue |-> q,
             batch |-> found,
             snap |-> [c \in ContactIds |->
                         [status |-> contact[c].status,
                          repliedAt |-> contact[c].repliedAt,
                          latest |-> LatestSent(c)]]]
  /\ UNCHANGED <<contact, outreach, faults>>
  /\ WatcherFrame

\* the loop goes on to the next contact, and after the last one to the inbox
NextInConversations ==
  IF Len(watcher.queue) = 1
    THEN [watcher EXCEPT !.pc = "sweep", !.queue = <<>>]
    ELSE [watcher EXCEPT !.queue = Tail(@)]

\* a call throws: it counts against the budget of faults
Throws == faults < MaxFaults /\ faults' = faults + 1

\* conversation pass, the body of the loop for the next contact
checkRepliesContact ==
  /\ watcher.pc = "conv"
  /\ LET c == Head(watcher.queue)
         sn == watcher.snap[c]
     IN \/ /\ \/ sn.latest = NULL
              \/ mail[c].thread = "none"
              \/ mail[c].thread = "reply" /\ AlreadyReplied(sn)
           /\ UNCHANGED <<contact, outreach, faults>>
        \/ /\ sn.latest # NULL
           /\ Throws
           /\ UNCHANGED <<contact, outreach>>
        \/ /\ sn.latest # NULL
           /\ mail[c].thread = "bounce"
           /\ contact' = BouncedContact(contact, c)
           /\ \/ outreach' = BounceCancelled(outreach, c) /\ UNCHANGED faults
              \/ UNCHANGED outreach /\ Throws
        \/ /\ sn.latest # NULL
           /\ mail[c].thread = "reply"
           /\ ~AlreadyReplied(sn)
           /\ \E s \in Sentiments :
                IF ~outreach[sn.latest].exists
                  THEN UNCHANGED <<contact, outreach, faults>>
                  ELSE \/ /\ outreach' =
                               ReplyCancelled(WithReply(outreach, sn.latest, s), c, s)
                          /\ contact' = RepliedContact(contact, c, s, sn.status)
                          /\ UNCHANGED faults
                       \/ /\ outreach' = WithReply(outreach, sn.latest, s)
                          /\ UNCHANGED contact
                          /\ Throws
                       \/ /\ s # "out_of_office"
                          /\ outreach' = WithReply(outreach, sn.latest, s)
                          /\ contact' = RepliedContact(contact, c, s, sn.status)
                          /\ Throws
  /\ watcher' = NextInConversations
  /\ WatcherFrame

\* inbox scan: the users with SENT outreach, getRecentBounces, the contacts
\* named by an NDR that are not BOUNCED
scanInboxStart ==
  /\ watcher.pc = "sweep"
  /\ LET found == {c \in ContactIds : mail[c].ndr /\ contact[c].status # "BOUNCED"}
     IN \/ /\ \/ \A o \in OutreachIds :
                   ~(outreach[o].exists /\ outreach[o].status = "SENT")
              \/ found = {}
           /\ watcher' = IdleWatcher
           /\ UNCHANGED faults
        \/ /\ \E o \in OutreachIds : outreach[o].exists /\ outreach[o].status = "SENT"
           /\ Throws
           /\ watcher' = IdleWatcher
        \/ /\ \E o \in OutreachIds : outreach[o].exists /\ outreach[o].status = "SENT"
           /\ found # {}
           /\ \E q \in Perms(found) :
                watcher' = [IdleWatcher EXCEPT !.pc = "inbox", !.queue = q,
                                               !.batch = found]
           /\ UNCHANGED faults
  /\ UNCHANGED <<contact, outreach>>
  /\ WatcherFrame

\* inbox scan, the body of the loop over bouncedContacts: a throw of
\* markContactBounced leaves the loop for the catch of the user
scanInboxContact ==
  /\ watcher.pc = "inbox"
  /\ LET c == Head(watcher.queue)
     IN \/ /\ contact' = BouncedContact(contact, c)
           /\ outreach' = BounceCancelled(outreach, c)
           /\ UNCHANGED faults
           /\ watcher' = IF Len(watcher.queue) = 1 THEN IdleWatcher
                         ELSE [watcher EXCEPT !.queue = Tail(@)]
        \/ /\ Throws
           /\ \/ UNCHANGED contact
              \/ contact' = BouncedContact(contact, c)
           /\ UNCHANGED outreach
           /\ watcher' = IdleWatcher
  /\ WatcherFrame

\* the contact answers in the conversation, or their server returns an NDR
\* into it
Receive(c, kind) ==
  /\ ops < MaxOps
  /\ ops' = ops + 1
  /\ contact[c].outlookConversationId
  /\ mail[c].thread # kind
  /\ mail' = [mail EXCEPT ![c].thread = kind]
  /\ UNCHANGED <<clock, jobs, outreach, contact, domains, campaign, watcher, warmup, activeTasks, graph,
                 worker, followUp, operator, delivered, faults>>

\* an NDR that names the contact's address arrives in the user's inbox
ReceiveNdr(c) ==
  /\ ops < MaxOps
  /\ ops' = ops + 1
  /\ HasSent(c)
  /\ ~mail[c].ndr
  /\ mail' = [mail EXCEPT ![c].ndr = TRUE]
  /\ UNCHANGED <<clock, jobs, outreach, contact, domains, campaign, watcher, warmup, activeTasks, graph,
                 worker, followUp, operator, delivered, faults>>

\* The store on day 1 at the window start: both contacts got their INITIAL
\* email on day 0 through the user's mailbox and are OUTREACH_STARTED; contact
\* 1 has its FOLLOWUP_1 SCHEDULED, contact 2 its FOLLOWUP_1 as a draft and its
\* FOLLOWUP_2 SCHEDULED. Each conversation holds a reply or nothing, the inbox
\* an NDR for a contact or none.
InitWatcher ==
  /\ clock = DAY_S + SEND_WINDOW_START * HOUR_S
  /\ jobs =
       [j \in JobIds |->
          IF j \in {1, 2}
            THEN [NoJob EXCEPT !.status = "COMPLETED", !.outreachId = j,
                               !.runAfter = SEND_WINDOW_START * HOUR_S,
                               !.createdAt = SEND_WINDOW_START * HOUR_S]
            ELSE NoJob]
  /\ outreach =
       [o \in OutreachIds |->
          IF o \in {1, 2}
            THEN [NoOutreach EXCEPT !.exists = TRUE, !.contactId = o,
                                    !.type = "INITIAL", !.status = "SENT",
                                    !.sentAt = SEND_WINDOW_START * HOUR_S]
          ELSE IF o \in {3, 4}
            THEN [NoOutreach EXCEPT !.exists = TRUE, !.contactId = o - 2,
                                    !.type = "FOLLOWUP_1",
                                    !.status = IF o = 3 THEN "SCHEDULED"
                                               ELSE "DRAFT_CREATED",
                                    !.scheduledAt = DAY_S + SEND_WINDOW_START * HOUR_S,
                                    !.parentOutreachId = o - 2]
          ELSE IF o = 5
            THEN [NoOutreach EXCEPT !.exists = TRUE, !.contactId = 2,
                                    !.type = "FOLLOWUP_2", !.status = "SCHEDULED",
                                    !.scheduledAt = 2 * DAY_S + SEND_WINDOW_START * HOUR_S,
                                    !.parentOutreachId = 2]
          ELSE NoOutreach]
  /\ contact =
       [c \in ContactIds |->
          [status |-> "OUTREACH_STARTED", outlookConversationId |-> TRUE,
           lastContactedAt |-> SEND_WINDOW_START * HOUR_S, repliedAt |-> NULL]]
  /\ domains =
       [d \in DomainIds |->
          IF d = 1
            THEN [warmupStatus |-> "READY", dailySendLimit |-> DomainDailyLimit,
                  healthScore |-> 100, smtp |-> TRUE,
                  warmupDayNumber |-> WARMUP_DAYS + 1, workspaceId |-> 1]
            ELSE [warmupStatus |-> "WARMING", dailySendLimit |-> WARMUP_START_LIMIT,
                  healthScore |-> 90, smtp |-> FALSE,
                  warmupDayNumber |-> 0, workspaceId |-> 1]]
  /\ campaign = [followUp1Days |-> 1, followUp2Days |-> NULL]
  /\ worker = [w \in Workers |-> IdleWorker]
  /\ followUp = IdleFollowUp
  /\ operator = IdleOperator
  /\ watcher = IdleWatcher
  /\ warmup = IdleWarmup
  /\ activeTasks = "scheduled"
  /\ graph = IdleGraph
  /\ mail \in [ContactIds -> [thread : {"none", "reply"}, ndr : BOOLEAN]]
  /\ delivered = [o \in OutreachIds |-> IF o \in {1, 2} THEN 1 ELSE 0]
  /\ faults = 0
  /\ ops = 0

NextWatcher ==
  \/ checkRepliesStart
  \/ checkRepliesContact
  \/ scanInboxStart
  \/ scanInboxContact
  \/ \E c \in ContactIds, kind \in {"reply", "bounce"} : Receive(c, kind)
  \/ \E c \in ContactIds : ReceiveNdr(c)

SpecWatcher == InitWatcher /\ [][NextWatcher]_vars

\* ------------------------------------------------------- warmup engine
\* the health scores a cycle can compute from the cumulative bounce ratio
HealthScores == {90, 100}

getDailySendLimit(dayNumber) ==
  IF dayNumber <= 7 THEN 3
  ELSE IF dayNumber <= 14 THEN 8
  ELSE IF dayNumber <= 21 THEN 15
  ELSE 20

\* a cycle that completes the warmup one day early
WarmupCompleteEarly(currentDay) == currentDay >= WARMUP_DAYS

\* Day 29+: warmup complete
WarmupComplete(currentDay) == currentDay > WARMUP_DAYS

\* recipientDomains: the other domains of the workspace
HasRecipientDomain(d, workspaceId) ==
  \E e \in DomainIds \ {d} : domains[e].workspaceId = workspaceId

WarmupFrame ==
  UNCHANGED <<clock, jobs, outreach, contact, campaign, watcher, mail, worker,
              followUp, operator, delivered, ops, activeTasks, graph>>

\* runWarmupCycle: sendingDomain.findMany of the WARMING domains
runWarmupCycleStart ==
  /\ warmup.pc = "idle"
  /\ LET found == {d \in DomainIds : domains[d].warmupStatus = "WARMING"}
     IN \E q \in Perms(found) :
          warmup' =
            [warmup EXCEPT
               !.pc = IF found = {} THEN "idle" ELSE "loop",
               !.queue = q,
               !.snap = [d \in DomainIds |->
                           [warmupDayNumber |-> domains[d].warmupDayNumber,
                            workspaceId |-> domains[d].workspaceId,
                            smtp |-> domains[d].smtp]]]
  /\ UNCHANGED <<domains, faults>>
  /\ WarmupFrame

\* runWarmupCycle, the body of the loop for the next domain: the sends change
\* the totals from which the health score is computed
runWarmupCycleDomain ==
  /\ warmup.pc = "loop"
  /\ LET d == Head(warmup.queue)
         sn == warmup.snap[d]
         currentDay == sn.warmupDayNumber + 1
     IN \/ /\ domains[d].warmupStatus = "NONE"
           /\ UNCHANGED <<domains, faults>>
        \/ /\ domains[d].warmupStatus # "NONE"
           /\ WarmupComplete(currentDay)
           /\ domains' = [domains EXCEPT ![d].warmupStatus = "READY",
                                         ![d].dailySendLimit = WARMUP_READY_LIMIT,
                                         ![d].warmupDayNumber = currentDay]
           /\ UNCHANGED faults
        \/ /\ ~WarmupComplete(currentDay)
           /\ ~HasRecipientDomain(d, sn.workspaceId) \/ ~sn.smtp
           /\ UNCHANGED <<domains, faults>>
        \/ /\ domains[d].warmupStatus # "NONE"
           /\ ~WarmupComplete(currentDay)
           /\ HasRecipientDomain(d, sn.workspaceId)
           /\ sn.smtp
           /\ \E h \in HealthScores :
                domains' = [domains EXCEPT
                              ![d].warmupDayNumber = currentDay,
                              ![d].dailySendLimit = getDailySendLimit(currentDay),
                              ![d].healthScore = h]
           /\ UNCHANGED faults
        \/ /\ Throws
           /\ UNCHANGED domains
  /\ warmup' = IF Len(warmup.queue) = 1
                 THEN [warmup EXCEPT !.pc = "idle", !.queue = <<>>]
                 ELSE [warmup EXCEPT !.queue = Tail(@)]
  /\ WarmupFrame

\* PATCH /api/domains/[id] with action start_warmup
startWarmup(d) ==
  /\ ops < MaxOps
  /\ ops' = ops + 1
  /\ domains[d].warmupStatus # "NONE"
  /\ domains' = [domains EXCEPT ![d].warmupStatus = "WARMING",
                                ![d].warmupDayNumber = 0,
                                ![d].dailySendLimit = WARMUP_START_LIMIT]
  /\ UNCHANGED <<clock, jobs, outreach, contact, campaign, watcher, mail, warmup, activeTasks, graph,
                 worker, followUp, operator, delivered, faults>>

\* the daily cron task and GET /api/cron?job=warmup: the handler counts the
\* WARMING domains and logs the count
jobRunWarmupAgent ==
  /\ warmup.firings < MaxFirings
  /\ warmup' = [warmup EXCEPT !.firings = @ + 1]
  /\ UNCHANGED <<clock, jobs, outreach, contact, domains, campaign, watcher, mail,
                 worker, followUp, operator, delivered, faults, ops, activeTasks,
                 graph>>

\* Two domains and no outreach yet: domain 1 has just started its warmup with
\* transport credentials; domain 2 is NEW, WARMING or PAUSED at day 0, with or
\* without credentials, in the same workspace or in another one.
InitWarmup ==
  /\ clock = SEND_WINDOW_START * HOUR_S
  /\ jobs = [j \in JobIds |-> NoJob]
  /\ outreach = [o \in OutreachIds |-> NoOutreach]
  /\ contact =
       [c \in ContactIds |->
          [status |-> "NEW", outlookConversationId |-> FALSE,
           lastContactedAt |-> NULL, repliedAt |-> NULL]]
  /\ \E s \in {"NEW", "WARMING", "PAUSED"}, cred \in BOOLEAN, ws \in {1, 2} :
       domains =
         [d \in DomainIds |->
            IF d = 1
              THEN [warmupStatus |-> "WARMING", dailySendLimit |-> WARMUP_START_LIMIT,
                    healthScore |-> 100, smtp |-> TRUE,
                    warmupDayNumber |-> 0, workspaceId |-> 1]
              ELSE [warmupStatus |-> s, dailySendLimit |-> WARMUP_START_LIMIT,
                    healthScore |-> 100, smtp |-> cred,
                    warmupDayNumber |-> 0, workspaceId |-> ws]]
  /\ campaign = [followUp1Days |-> NULL, followUp2Days |-> NULL]
  /\ worker = [w \in Workers |-> IdleWorker]
  /\ followUp = IdleFollowUp
  /\ operator = IdleOperator
  /\ watcher = IdleWatcher
  /\ warmup = IdleWarmup
  /\ activeTasks = "scheduled"
  /\ graph = IdleGraph
  /\ mail = [c \in ContactIds |-> NoMail]
  /\ delivered = [o \in OutreachIds |-> 0]
  /\ faults = 0
  /\ ops = 0

NextWarmup ==
  \/ runWarmupCycleStart
  \/ runWarmupCycleDomain
  \/ \E d \in DomainIds : startWarmup(d)
  \/ \E d \in DomainIds : pauseWarmup(d)
  \/ jobRunWarmupAgent

SpecWarmup == InitWarmup /\ [][NextWarmup]_vars

\* ------------------------------------------------------- job processor
\* the cron task of the send queue fires: jobProcessSendQueue starts an
\* invocation of processEmailQueue
cronSendQueue(w) ==
  /\ activeTasks = "scheduled"
  /\ FindJob(w)

\* the catch block's own store call throws (the store is unreachable): the
\* rejection is logged by jobProcessSendQueue and the job row is left as the
\* claim wrote it; the transport had accepted the message, or not
CatchThrows(w) ==
  /\ worker[w].pc = "send"
  /\ Throws
  /\ \/ UNCHANGED delivered
     \/ delivered' = [delivered EXCEPT ![worker[w].outreachId] = @ + 1]
  /\ worker' = [worker EXCEPT ![w] = IdleWorker]
  /\ UNCHANGED <<jobs, outreach, contact>>
  /\ SchedulerFrame

\* stopJobProcessor: task.stop() for every task, activeTasks.length = 0; it
\* returns without waiting for the invocations under way
stopJobProcessor ==
  /\ activeTasks = "scheduled"
  /\ activeTasks' = "stopped"
  /\ UNCHANGED <<clock, jobs, outreach, contact, domains, campaign, watcher, mail,
                 warmup, graph, worker, followUp, operator, delivered, faults, ops>>

NextProcessor ==
  \/ \E w \in Workers : cronSendQueue(w)
  \/ \E w \in Workers : ClaimJob(w)
  \/ \E w \in Workers : Dispatch(w)
  \/ \E w \in Workers : CatchThrows(w)
  \/ stopJobProcessor
  \/ Tick

\* the store of InitRetry, the send-queue task scheduled
SpecProcessor == InitRetry /\ [][NextProcessor]_vars

\* ---------------------------------------------------------- retry ceiling
\* 5. the transport call throws, as often as MaxSendFailures times over a
\* behaviour
TransportThrows(w) ==
  /\ worker[w].pc = "send"
  /\ faults < MaxSendFailures
  /\ faults' = faults + 1
  /\ HandleFailure(w, outreach)
  /\ UNCHANGED <<contact, delivered>>
  /\ SchedulerFrame

\* 5. to 9. the transport accepts the message and every store call succeeds
TransportAccepts(w) ==
  /\ worker[w].pc = "send"
  /\ SendSucceeds(w)
  /\ SchedulerFrame

NextCeiling ==
  \/ \E w \in Workers : FindJob(w)
  \/ \E w \in Workers : ClaimJob(w)
  \/ \E w \in Workers : TransportThrows(w)
  \/ \E w \in Workers : TransportAccepts(w)
  \/ Tick

\* the store of InitRetry: one job, no attempt yet; only the transport fails
SpecCeiling == InitRetry /\ [][NextCeiling]_vars

\* ------------------------------------------------------- sibling identities
\* a SendingDomain row that does not exist
NoDomain ==
  [warmupStatus |-> "NONE", dailySendLimit |-> 0, healthScore |-> 0,
   smtp |-> FALSE, warmupDayNumber |-> 0, workspaceId |-> NULL]

\* DELETE /api/domains/[id]: refused for a domain that outreach refers to
deleteDomain(d) ==
  /\ ops < MaxOps
  /\ ops' = ops + 1
  /\ domains[d].warmupStatus # "NONE"
  /\ \A o \in OutreachIds : outreach[o].exists => outreach[o].sendingDomainId # d
  /\ domains' = [domains EXCEPT ![d] = NoDomain]
  /\ UNCHANGED <<clock, jobs, outreach, contact, campaign, watcher, mail, warmup,
                 activeTasks, graph, worker, followUp, operator, delivered, faults>>

\* Two domains of one workspace and no outreach yet: domain 1 is WARMING with
\* credentials, at the start, in the last week or on the last day of its ramp;
\* domain 2 is NEW or PAUSED.
InitSibling ==
  /\ clock = SEND_WINDOW_START * HOUR_S
  /\ jobs = [j \in JobIds |-> NoJob]
  /\ outreach = [o \in OutreachIds |-> NoOutreach]
  /\ contact =
       [c \in ContactIds |->
          [status |-> "NEW", outlookConversationId |-> FALSE,
           lastContactedAt |-> NULL, repliedAt |-> NULL]]
  /\ \E day \in {0, WARMUP_DAYS - 1, WARMUP_DAYS}, s \in {"NEW", "PAUSED"},
        cred \in BOOLEAN :
       domains =
         [d \in DomainIds |->
            IF d = 1
              THEN [warmupStatus |-> "WARMING",
                    dailySendLimit |-> IF day = 0 THEN WARMUP_START_LIMIT
                                       ELSE getDailySendLimit(day),
                    healthScore |-> 100, smtp |-> TRUE,
                    warmupDayNumber |-> day, workspaceId |-> 1]
              ELSE [warmupStatus |-> s, dailySendLimit |-> WARMUP_START_LIMIT,
                    healthScore |-> 100, smtp |-> cred,
                    warmupDayNumber |-> 0, workspaceId |-> 1]]
  /\ campaign = [followUp1Days |-> NULL, followUp2Days |-> NULL]
  /\ worker = [w \in Workers |-> IdleWorker]
  /\ followUp = IdleFollowUp
  /\ operator = IdleOperator
  /\ watcher = IdleWatcher
  /\ warmup = IdleWarmup
  /\ activeTasks = "scheduled"
  /\ graph = IdleGraph
  /\ mail = [c \in ContactIds |-> NoMail]
  /\ delivered = [o \in OutreachIds |-> 0]
  /\ faults = 0
  /\ ops = 0

NextSibling ==
  \/ runWarmupCycleStart
  \/ runWarmupCycleDomain
  \/ \E d \in DomainIds : startWarmup(d)
  \/ \E d \in DomainIds : pauseWarmup(d)
  \/ \E d \in DomainIds : deleteDomain(d)

SpecSibling == InitSibling /\ [][NextSibling]_vars

\* ------------------------------------------------------------ graphApiCall
\* what one run of sendEmail's callback does: sendMail accepts the message or
\* not, and the callback returns ("ok") or throws with a status code
CallbackOutcomes ==
  {[delivered |-> TRUE, status |-> "ok"]}
    \cup [delivered : BOOLEAN, status : {"401", "429", "error"}]

GraphFrame ==
  UNCHANGED <<clock, jobs, outreach, contact, domains, campaign, watcher, mail,
              warmup, activeTasks, worker, followUp, operator, delivered, faults,
              ops>>

\* sendEmail calls graphApiCall: attempt = 0
graphApiCallStart ==
  /\ graph.pc = "idle"
  /\ graph' = [IdleGraph EXCEPT !.pc = "call"]
  /\ GraphFrame

\* the loop leaves through the throw below it once attempt reaches MAX_RETRIES
AfterAttempt(g) ==
  [g EXCEPT !.attempt = @ + 1,
            !.pc = IF g.attempt + 1 >= MAX_RETRIES THEN "thrown" ELSE "call"]

\* one iteration of the loop: the callback runs; on a throw, 429 sleeps and
\* continues, 401 on the first attempt refreshes the token and continues
\* (refreshAccessToken can throw, which ends the call), any other error
\* sleeps and continues while attempts are left
graphApiCallAttempt ==
  /\ graph.pc = "call"
  /\ \E out \in CallbackOutcomes :
       LET ran == [graph EXCEPT !.log = Append(@, out),
                                !.sent = @ + (IF out.delivered THEN 1 ELSE 0)]
       IN IF out.status = "ok"
            THEN graph' = [ran EXCEPT !.pc = "returned"]
          ELSE IF out.status = "401" /\ graph.attempt = 0
            THEN \/ graph' = AfterAttempt([ran EXCEPT !.refreshes = @ + 1])
                 \/ graph' = [ran EXCEPT !.pc = "thrown"]
          ELSE graph' = AfterAttempt(ran)
  /\ GraphFrame

NextGraph ==
  \/ graphApiCallStart
  \/ graphApiCallAttempt

\* one call of sendEmail, by a send cycle over the store of InitRetry
SpecGraph == InitRetry /\ [][NextGraph]_vars

\* ----------------------------------------------------------------- claims
Holders(j) == {w \in Workers : worker[w].pc = "send" /\ worker[w].job = j}

ClaimWins(w) ==
  /\ worker[w].pc = "claim"
  /\ worker'[w] # worker[w]
  /\ jobs[worker[w].job].status = "PENDING"

\* the step of a winning caller whose outreach row loads
ClaimLoads(w) == ClaimWins(w) /\ outreach[worker[w].outreachId].exists

\* not dispatched, back to PENDING, attempts and lastError as they were
Deferred(w) ==
  /\ worker'[w].pc = "idle"
  /\ delivered' = delivered
  /\ jobs'[worker[w].job].status = "PENDING"
  /\ jobs'[worker[w].job].attempts = jobs[worker[w].job].attempts
  /\ jobs'[worker[w].job].lastError = jobs[worker[w].job].lastError

\* outreach marked SENT through domain d with sentAt on the given day
SentOn(d, day) ==
  {o \in OutreachIds :
     /\ outreach[o].exists
     /\ outreach[o].status = "SENT"
     /\ outreach[o].sendingDomainId = d
     /\ outreach[o].sentAt \div DAY_S = day}

\* domain d has today's SENT count at or above its dailySendLimit
AtLimit(d) ==
  d \in DomainIds /\ Cardinality(SentOn(d, clock \div DAY_S)) >= domains[d].dailySendLimit

\* the hour of t is outside [SEND_WINDOW_START, SEND_WINDOW_END)
HourOutside(t) == Hour(t) < SEND_WINDOW_START \/ Hour(t) >= SEND_WINDOW_END

Today == clock \div DAY_S
WindowStartOn(day) == day * DAY_S + SEND_WINDOW_START * HOUR_S

\* C2: a job claimed while its outreach is CANCELLED is not dispatched: the
\* caller does not go on to the transport call (and so never writes SENT).
C2_CancelledIsNotDispatched ==
  [][\A w \in Workers :
       (ClaimLoads(w) /\ outreach[worker[w].outreachId].status = "CANCELLED")
         => worker'[w].pc # "send"]_vars

\* C3: a BOUNCED contact has no outreach in SCHEDULED, DRAFT_CREATED or
\* APPROVED, in every state after the cascade.
C3_BouncedHasNoOpenOutreach ==
  \A c \in ContactIds, o \in OutreachIds :
    (contact[c].status = "BOUNCED" /\ outreach[o].exists /\ outreach[o].contactId = c)
      => outreach[o].status \notin {"SCHEDULED", "DRAFT_CREATED", "APPROVED"}

\* C4: no step of the send scheduler, the signal watcher or the follow-up
\* due-check changes the status of an outreach that is SENT, FAILED or
\* CANCELLED.
C4_TerminalStatusesStay ==
  [][(\/ \E w \in Workers : processEmailQueue(w)
      \/ \E c \in ContactIds : BounceInThread(c) \/ BounceInInbox(c)
      \/ \E o \in OutreachIds : ReadDueFollowUp(o)
      \/ WriteFollowUp)
       => \A o \in OutreachIds :
            (outreach[o].exists /\ outreach[o].status \in {"SENT", "FAILED", "CANCELLED"})
              => outreach'[o].status = outreach[o].status]_vars

\* C5: for every sending domain and day, the outreach marked SENT through the
\* domain on that day never outnumber the domain's dailySendLimit.
C5_DailyLimitHolds ==
  \A d \in DomainIds, day \in 0..(MaxDay + 1) :
    Cardinality(SentOn(d, day)) <= domains[d].dailySendLimit

\* C6: a claimed job whose outreach has a sending domain with today's SENT
\* count at or above its daily limit is not dispatched: it is PENDING again
\* with runAfter = tomorrow at the window start, attempts and lastError
\* unchanged.
C6_CapacityDefers ==
  [][\A w \in Workers :
       (/\ ClaimLoads(w)
        /\ outreach[worker[w].outreachId].sendingDomainId \in DomainIds
        /\ Cardinality(SentOn(outreach[worker[w].outreachId].sendingDomainId, Today))
             >= domains[outreach[worker[w].outreachId].sendingDomainId].dailySendLimit)
         => /\ Deferred(w)
            /\ jobs'[worker[w].job].runAfter = WindowStartOn(Today + 1)]_vars

\* C6 witness: a job put off to tomorrow's window start while its domain is
\* at its limit and the hour is inside the window
C6_Witness ==
  \E j \in JobIds :
    /\ jobs[j].status = "PENDING"
    /\ jobs[j].runAfter = WindowStartOn(Today + 1)
    /\ ~HourOutside(clock)
    /\ outreach[jobs[j].outreachId].exists
    /\ outreach[jobs[j].outreachId].sendingDomainId \in DomainIds
    /\ Cardinality(SentOn(outreach[jobs[j].outreachId].sendingDomainId, Today))
         >= domains[outreach[jobs[j].outreachId].sendingDomainId].dailySendLimit

C8_NoIdentityDefers ==
  [][\A w \in Workers :
       (/\ ClaimLoads(w)
        /\ outreach[worker[w].outreachId].sendingDomainId = NULL
        /\ \A d \in DomainIds : domains[d].warmupStatus # "READY" \/ AtLimit(d))
         => Deferred(w)]_vars

C10_MissingOutreachIsDead ==
  [][\A w \in Workers :
       (ClaimWins(w) /\ ~outreach[worker[w].outreachId].exists)
         => jobs'[worker[w].job].status = "DEAD"]_vars

\* the transport call of caller w ends in the catch block
DispatchFails(w) ==
  /\ worker[w].pc = "send"
  /\ worker'[w] # worker[w]
  /\ jobs'[worker[w].job].status # "COMPLETED"

\* C11: each of the three failures a job of the 3-attempt policy can have
\* (read with attempts 0, 1, 2) increments attempts, records the error and
\* returns the job to PENDING with runAfter = now + 30 s * 4^attempts: the
\* retry delays are 30 s, 120 s and 480 s.
C11_ThreeRetryDelays ==
  [][\A w \in Workers :
       (DispatchFails(w) /\ worker[w].attempts \in 0..2)
         => /\ jobs'[worker[w].job].status = "PENDING"
            /\ jobs'[worker[w].job].attempts = worker[w].attempts + 1
            /\ jobs'[worker[w].job].lastError = "error"
            /\ jobs'[worker[w].job].runAfter =
                 clock + 30 * Pow(4, worker[w].attempts)]_vars

\* the follow-up rows that name o as their parent
Children(o) ==
  {f \in OutreachIds : outreach[f].exists /\ outreach[f].parentOutreachId = o}

\* the rows a step creates
NewRows == {f \in OutreachIds : outreach'[f].exists /\ ~outreach[f].exists}

\* the cadence in days, with the defaults 5 and 14
CadenceDays(type) ==
  IF type = "FOLLOWUP_1"
    THEN (IF campaign.followUp1Days = NULL THEN 5 ELSE campaign.followUp1Days)
    ELSE (IF campaign.followUp2Days = NULL THEN 14 ELSE campaign.followUp2Days)

\* f is, after the step, the SCHEDULED follow-up of the given type of o,
\* dated the cadence's number of days after the send
IsFollowUpOf(f, o, type, now) ==
  /\ outreach'[f].type = type
  /\ outreach'[f].status = "SCHEDULED"
  /\ outreach'[f].parentOutreachId = o
  /\ outreach'[f].contactId = outreach[o].contactId
  /\ outreach'[f].scheduledAt \div DAY_S = now \div DAY_S + CadenceDays(type)

\* C12: a dispatch that completes the job of an INITIAL outreach creates
\* exactly two rows, its SCHEDULED FOLLOWUP_1 and FOLLOWUP_2 dated
\* followUp1Days and followUp2Days later, and one of any other type creates
\* none; over the whole life of the job an outreach never has more than two
\* follow-up rows.
C12_TwoFollowUpsPerInitial ==
  /\ [][\A w \in Workers :
          (/\ worker[w].pc = "send"
           /\ jobs'[worker[w].job].status = "COMPLETED"
           /\ outreach[worker[w].outreachId].exists)
            => IF outreach[worker[w].outreachId].type = "INITIAL"
                 THEN /\ Cardinality(NewRows) = 2
                      /\ \E f1, f2 \in NewRows :
                           /\ IsFollowUpOf(f1, worker[w].outreachId, "FOLLOWUP_1",
                                           worker[w].now)
                           /\ IsFollowUpOf(f2, worker[w].outreachId, "FOLLOWUP_2",
                                           worker[w].now)
                 ELSE NewRows = {}]_vars
  /\ [](\A o \in OutreachIds : Cardinality(Children(o)) <= 2)

\* the outreach of contact c and the given type that are not CANCELLED
OpenSlot(c, type) ==
  {o \in OutreachIds :
     /\ outreach[o].exists
     /\ outreach[o].contactId = c
     /\ outreach[o].type = type
     /\ outreach[o].status # "CANCELLED"}

\* C13: for each contact and each of FOLLOWUP_1 and FOLLOWUP_2, at most one
\* outreach of that type with a status other than CANCELLED exists.
C13_OneOpenFollowUpPerSlot ==
  \A c \in ContactIds, type \in {"FOLLOWUP_1", "FOLLOWUP_2"} :
    Cardinality(OpenSlot(c, type)) <= 1

\* the rows of a contact
RowsOf(c) == {o \in OutreachIds : outreach[o].exists /\ outreach[o].contactId = c}

\* the conversation pass takes its step for contact c
ConversationStep(c) ==
  /\ watcher.pc = "conv"
  /\ watcher' # watcher
  /\ Head(watcher.queue) = c

NoStatusChange(c) ==
  /\ contact'[c].status = contact[c].status
  /\ \A o \in RowsOf(c) : outreach'[o].status = outreach[o].status

NoReplyWrite(c) ==
  /\ contact'[c].repliedAt = contact[c].repliedAt
  /\ \A o \in RowsOf(c) : outreach'[o].replySentiment = outreach[o].replySentiment

\* the pass has gone past contact c
PassedInConversations(c) ==
  /\ watcher.pc \in {"conv", "sweep"}
  /\ c \in watcher.batch
  /\ \A i \in 1..Len(watcher.queue) : watcher.queue[i] # c

\* C14 (as stated): the reply pass on a contact whose repliedAt is set changes
\* neither the contact's status nor the status of any of its outreach and
\* writes no reply field, whatever the latest message of the conversation is.
C14_RepliedIsIdempotent ==
  [][\A c \in ContactIds :
       ConversationStep(c) /\ contact[c].repliedAt # NULL
         => NoStatusChange(c) /\ NoReplyWrite(c)]_vars

\* C14 (amended): the reply pass on a contact whose repliedAt is set writes no
\* reply field, and changes no status unless the latest message of the
\* conversation is a bounce notice; then the only status it can write is
\* BOUNCED for the contact and CANCELLED for its outreach.
C14_RepliedIsIdempotentUnlessBounce ==
  [][\A c \in ContactIds :
       ConversationStep(c) /\ contact[c].repliedAt # NULL
         => /\ NoReplyWrite(c)
            /\ mail[c].thread # "bounce" => NoStatusChange(c)
            /\ contact'[c].status \in {contact[c].status, "BOUNCED"}
            /\ \A o \in RowsOf(c) :
                 outreach'[o].status \in {outreach[o].status, "CANCELLED"}]_vars

\* a pass went past a contact that had its reply processed by an earlier pass
\* and still has that reply as the latest message
C14_Witness ==
  \E c \in ContactIds :
    /\ PassedInConversations(c)
    /\ watcher.snap[c].repliedAt # NULL
    /\ watcher.snap[c].latest # NULL
    /\ mail[c].thread = "reply"
    /\ contact[c].status = "OUTREACH_STARTED"

\* the pass processes the first reply of contact c and all its writes are made
FirstReplyStep(c) ==
  /\ ConversationStep(c)
  /\ contact[c].repliedAt = NULL
  /\ contact'[c].repliedAt # NULL
  /\ faults' = faults

\* C15: when the reply pass processes a contact's first reply, the contact
\* becomes REPLIED for interested and maybe_later, NOT_INTERESTED for
\* not_interested and wrong_person, and keeps its status for out_of_office;
\* except for out_of_office every SCHEDULED outreach of the contact becomes
\* CANCELLED (and no other status changes), for out_of_office no outreach
\* status changes.
C15_SentimentDecidesStatus ==
  [][\A c \in ContactIds :
       FirstReplyStep(c)
         => LET s == outreach'[watcher.snap[c].latest].replySentiment
            IN /\ s \in Sentiments
               /\ s \in {"interested", "maybe_later"}
                    => contact'[c].status = "REPLIED"
               /\ s \in {"not_interested", "wrong_person"}
                    => contact'[c].status = "NOT_INTERESTED"
               /\ s = "out_of_office"
                    => /\ contact'[c].status = contact[c].status
                       /\ \A o \in OutreachIds :
                            outreach'[o].status = outreach[o].status
               /\ s # "out_of_office"
                    => \A o \in OutreachIds :
                         outreach'[o].status =
                           IF o \in RowsOf(c) /\ outreach[o].status = "SCHEDULED"
                             THEN "CANCELLED"
                             ELSE outreach[o].status]_vars

\* a first reply was classified not_interested: the contact is NOT_INTERESTED,
\* its SCHEDULED follow-up is CANCELLED and its draft is still a draft
C15_Witness ==
  /\ contact[2].repliedAt # NULL
  /\ contact[2].status = "NOT_INTERESTED"
  /\ outreach[2].replySentiment = "not_interested"
  /\ outreach[5].status = "CANCELLED"
  /\ outreach[4].status = "DRAFT_CREATED"

\* C16: in the conversation pass and in the inbox scan, a failure while one
\* contact is processed leaves every remaining contact of the batch to be
\* processed by the same invocation.
C16_FailureKeepsTheBatch ==
  [][watcher.pc \in {"conv", "inbox"} /\ faults' > faults
       => watcher'.queue = Tail(watcher.queue)]_vars

\* runWarmupCycle takes its step for domain d
CycleStep(d) ==
  /\ warmup.pc = "loop"
  /\ warmup'.queue # warmup.queue
  /\ Head(warmup.queue) = d

\* the domains whose limit was written by startWarmup or by a cycle
Ramped == {e \in DomainIds : domains[e].warmupStatus # "NEW"}

\* C17: the daily limit written by a warmup cycle is non-decreasing in the day
\* counter (it is never below the limit the domain had, nor below the limit of
\* any domain at an earlier or equal day, nor above the limit of any domain at
\* a later or equal day), and the cycle makes the domain READY, with limit 20,
\* exactly when the day counter it writes exceeds 28.
C17_RampIsMonotonic ==
  [][\A d \in DomainIds :
       CycleStep(d) /\ domains'[d] # domains[d]
         => /\ domains'[d].warmupDayNumber = warmup.snap[d].warmupDayNumber + 1
            /\ domains'[d].dailySendLimit >= domains[d].dailySendLimit
            /\ \A e \in Ramped :
                 /\ domains[e].warmupDayNumber <= domains'[d].warmupDayNumber
                      => domains[e].dailySendLimit <= domains'[d].dailySendLimit
                 /\ domains[e].warmupDayNumber >= domains'[d].warmupDayNumber
                      => domains[e].dailySendLimit >= domains'[d].dailySendLimit
            /\ domains'[d].warmupStatus = "READY"
                 <=> domains'[d].warmupDayNumber > WARMUP_DAYS
            /\ domains'[d].warmupStatus = "READY"
                 => domains'[d].dailySendLimit = WARMUP_READY_LIMIT
            /\ domains'[d].warmupStatus # "READY"
                 => domains'[d].warmupStatus = domains[d].warmupStatus]_vars

\* domain 1 went through the whole ramp and is READY at day 29, while domain 2,
\* started later, is in the second week of its ramp
C17_Witness ==
  /\ domains[1].warmupStatus = "READY"
  /\ domains[1].warmupDayNumber = WARMUP_DAYS + 1
  /\ domains[1].dailySendLimit = WARMUP_READY_LIMIT
  /\ domains[2].warmupStatus = "WARMING"
  /\ domains[2].warmupDayNumber = 10
  /\ domains[2].dailySendLimit = 8

WarmupTransitions ==
  {<<"NEW", "WARMING">>, <<"WARMING", "READY">>, <<"WARMING", "PAUSED">>,
   <<"PAUSED", "WARMING">>, <<"READY", "FLAGGED">>}

\* C18: the warmup status of a sending identity changes only along
\* NEW->WARMING, WARMING->READY, WARMING->PAUSED, PAUSED->WARMING and
\* READY->FLAGGED.
C18_WarmupTransitions ==
  [][\A d \in DomainIds :
       domains'[d].warmupStatus # domains[d].warmupStatus
         => <<domains[d].warmupStatus, domains'[d].warmupStatus>>
              \in WarmupTransitions]_vars

\* a WARMING identity with a sibling identity and transport credentials
Eligible(d) ==
  /\ domains[d].warmupStatus = "WARMING"
  /\ domains[d].smtp
  /\ HasRecipientDomain(d, domains[d].workspaceId)

\* C19: every firing of the daily warmup trigger advances by one the day
\* counter of each WARMING identity that has a sibling identity and transport
\* credentials.
C19_TriggerAdvancesTheDay ==
  [][warmup'.firings # warmup.firings
       => \A d \in DomainIds :
            Eligible(d)
              => domains'[d].warmupDayNumber = domains[d].warmupDayNumber + 1]_vars

\* the invocations of the send-queue handler that are executing
Running == {w \in Workers : worker[w].pc # "idle"}

\* C20: a trigger serializes its firings: two invocations of the same handler
\* (here the send-queue handler) never execute at the same time.
C20_OneInvocationPerHandler == Cardinality(Running) <= 1

\* C24: a job whose not-before (runAfter) lies in the future is never claimed:
\* at the step where a caller's conditional update wins, the job is due.
C24_ClaimedJobIsDue ==
  [][\A w \in Workers :
       ClaimWins(w) => jobs[worker[w].job].runAfter <= clock]_vars

\* C28: the email of an outreach is handed successfully to a transport at
\* most once.
C28_DeliveredAtMostOnce == \A o \in OutreachIds : delivered[o] <= 1

\* C29: an outreach with status FAILED was never delivered, and a DEAD job's
\* outreach was never delivered.
C29_FailedWasNeverDelivered ==
  /\ \A o \in OutreachIds :
       outreach[o].exists /\ outreach[o].status = "FAILED" => delivered[o] = 0
  /\ \A j \in JobIds :
       jobs[j].status = "DEAD" => delivered[jobs[j].outreachId] = 0

\* C30: a dispatch success moves the contact to OUTREACH_STARTED only from
\* NEW or RESEARCHED, as the store has it at that moment.
C30_StartedOnlyFromNew ==
  [][\A w \in Workers :
       (/\ worker[w].pc = "send"
        /\ worker'[w] # worker[w]
        /\ contact'[worker[w].contactId].status = "OUTREACH_STARTED"
        /\ contact[worker[w].contactId].status # "OUTREACH_STARTED")
         => contact[worker[w].contactId].status \in {"NEW", "RESEARCHED"}]_vars

\* C25: a sending identity selected for an outreach is persisted on the
\* outreach before the dispatch, is never replaced afterwards, and every later
\* cycle for that outreach goes on with the persisted identity.
C25_PersistedIdentityIsReused ==
  /\ [][\A o \in OutreachIds :
          (/\ outreach[o].exists
           /\ outreach'[o].exists
           /\ outreach[o].sendingDomainId # NULL)
            => outreach'[o].sendingDomainId = outreach[o].sendingDomainId]_vars
  /\ [][\A w \in Workers :
          (ClaimLoads(w) /\ worker'[w].pc = "send")
            => /\ outreach'[worker[w].outreachId].sendingDomainId
                    = worker'[w].sendingDomainId
               /\ outreach[worker[w].outreachId].sendingDomainId # NULL
                    => worker'[w].sendingDomainId
                         = outreach[worker[w].outreachId].sendingDomainId]_vars

\* a retry of a job is in the transport call with the identity that an
\* earlier cycle picked and persisted
C25_Witness ==
  \E w \in Workers :
    /\ worker[w].pc = "send"
    /\ worker[w].attempts > 0
    /\ worker[w].snapDomainId # NULL
    /\ worker[w].sendingDomainId = worker[w].snapDomainId
    /\ outreach[worker[w].outreachId].sendingDomainId = worker[w].snapDomainId

\* C21: once stopJobProcessor has returned, no handler invocation performs a
\* further store write or dispatch.
C21_StopWaitsForHandlers ==
  [][activeTasks = "stopped" => UNCHANGED <<jobs, outreach, contact, delivered>>]_vars

\* C22: no job stays PROCESSING forever: a PROCESSING job is held by an
\* invocation that will take it to COMPLETED, DEAD or back to PENDING.
C22_ProcessingIsHeld ==
  \A j \in JobIds : jobs[j].status = "PROCESSING" => Holders(j) # {}

\* the transport calls made for job j: in SpecCeiling there is one job, every
\* fault is a transport call of it that threw, and delivered counts the
\* accepted ones
Dispatches(j) == faults + delivered[jobs[j].outreachId]

\* C23: a send job is dispatched at most maxAttempts times.
C23_DispatchCeiling ==
  \A j \in JobIds : jobs[j].status # "NONE" => Dispatches(j) <= jobs[j].maxAttempts

\* C26: for a WARMING identity with no sibling identity in its workspace a
\* warmup cycle is a no-op: the cycle leaves its row as it was.
C26_NoSiblingIsNoOp ==
  [][\A d \in DomainIds :
       (/\ CycleStep(d)
        /\ domains[d].warmupStatus = "WARMING"
        /\ ~HasRecipientDomain(d, domains[d].workspaceId))
         => domains'[d] = domains[d]]_vars

\* C27: the retry that follows the forced token refresh is not counted
\* against the backoff budget: a call that refreshed once and then ran out of
\* attempts has run the callback once for the 401 and MAX_RETRIES times more.
C27_RefreshKeepsTheBudget ==
  (graph.pc = "thrown" /\ graph.refreshes = 1)
    => Len(graph.log) = MAX_RETRIES + 1

====
